---- MODULE Spec2Model ----
(***************************************************************************)
(* Model of the quantity-selection and node-composition layer of           *)
(* aiida_vasp: parsers/manager.py (ParserManager) and                      *)
(* parsers/node_composer.py (get_node_composer_inputs, NodeComposer), and  *)
(* of the outline steps of workchains/vasp.py (VaspWorkChain).             *)
(*                                                                         *)
(* Python values are tagged records: None is [t |-> "None"], an opaque     *)
(* parsed value is [t |-> "val", v |-> n].  A Python dict whose iteration  *)
(* order the code depends on is a sequence of <<key, value>> pairs with    *)
(* distinct keys, in insertion order.                                      *)
(***************************************************************************)
EXTENDS Integers, Sequences, FiniteSets, TLC

VARIABLES
    node_,                  \* ParserManager._node: the job's retrieve lists
    quantities_to_parse_,   \* ParserManager._quantities_to_parse
    quantities,             \* the registry handed to setup
    requested,              \* quantities_to_parse argument of the last setup call
    warnings,               \* messages the last setup call sent to the logger
    raised,                 \* exception that ended the last ParserManager call
    removed,                \* argument of the last call, when it was remove
    parsable_quantities,    \* registry handed to get_node_composer_inputs
    parsed_quantities,      \* parsed-quantity table handed to it
    file_parser,            \* file parser handed to it, or None
    node_type,              \* node-type tag handed to it
    quantity_names,         \* quantity_names argument handed to it, or None
    inputs,                 \* the composed inputs it returned (an ordered dict)
    composed_type,          \* node-type tag handed to NodeComposer.compose
    node,                   \* node returned by NodeComposer.compose
    error,                  \* exception that ended the last composer call
    last_call,              \* which operation ran last
    wc_inputs,              \* VaspWorkChain.inputs
    potcars,                \* what get_potcars_from_structure gives for the inputs
    ctx,                    \* VaspWorkChain.ctx
    workchain,              \* attributes set on the workchain object
    nodes_created,          \* number of nodes get_data_node has created
    step,                   \* the outline step that ran last ("" before the first)
    returned                \* what that step returned

vars == <<node_, quantities_to_parse_, quantities, requested, warnings, raised, removed,
          parsable_quantities, parsed_quantities, file_parser, node_type,
          quantity_names, inputs, composed_type, node, error, last_call,
          wc_inputs, potcars, ctx, workchain, nodes_created, step, returned>>

managerVars == <<node_, quantities_to_parse_, quantities, requested, warnings, raised, removed>>
composerVars == <<parsable_quantities, parsed_quantities, file_parser, node_type,
                  quantity_names, inputs, composed_type, node, error>>
workchainVars == <<wc_inputs, potcars, ctx, workchain, nodes_created, step, returned>>

-----------------------------------------------------------------------------
(* Bounds of the model *)

MaxRequested == 2
MaxRetrieve == 1
MaxParsed == 3
MaxPoints == 2
MaxIterations == 2

-----------------------------------------------------------------------------
(* Python values *)

None == [t |-> "None"]
NoError == "none"
Val(v) == [t |-> "val", v |-> v]
Str(s) == [t |-> "str", s |-> s]
List(items) == [t |-> "list", items |-> items]
NdArray(data) == [t |-> "ndarray", data |-> data]
Dict(pairs) == [t |-> "dict", pairs |-> pairs]
BoolVal(b) == [t |-> "bool", b |-> b]
IntVal(n) == [t |-> "int", n |-> n]

\* Python dicts as sequences of <<key, value>> pairs in insertion order.
DictKeys(d) == {d[i][1] : i \in 1..Len(d)}
DictHas(d, k) == k \in DictKeys(d)
DictGet(d, k) == IF DictHas(d, k) THEN d[CHOOSE i \in 1..Len(d) : d[i][1] = k][2] ELSE None
DictSet(d, k, v) ==
    IF DictHas(d, k) THEN [i \in 1..Len(d) |-> IF d[i][1] = k THEN <<k, v>> ELSE d[i]]
    ELSE Append(d, <<k, v>>)
RECURSIVE DictUpdate(_, _)
DictUpdate(d, e) ==
    IF e = <<>> THEN d ELSE DictUpdate(DictSet(d, Head(e)[1], Head(e)[2]), Tail(e))
\* The content of a dict, without its order.
DictContent(d) == [k \in DictKeys(d) |-> DictGet(d, k)]

\* x[k] for a Python value x and a string key k: the exception it raises.
SubErr(x, k) ==
    IF x.t # "dict" THEN "TypeError"
    ELSE IF ~DictHas(x.pairs, k) THEN "KeyError" ELSE NoError
Sub(x, k) == DictGet(x.pairs, k)

\* Sequences over S of length at most n.
SeqUpTo(S, n) == UNION {[1..k -> S] : k \in 0..n}

\* Python `x in list`.
InList(x, list) == \E i \in 1..Len(list) : list[i] = x

\* Number of occurrences of x in list.
RECURSIVE Count(_, _)
Count(x, list) ==
    IF list = <<>> THEN 0
    ELSE (IF Head(list) = x THEN 1 ELSE 0) + Count(x, Tail(list))

-----------------------------------------------------------------------------
(* The quantity registry (ParsableQuantities).                             *)
(* A registry maps a quantity name to a quantity with an original_name, an *)
(* is_parsable flag, the names of its equivalents and the file it is       *)
(* parsed from.                                                            *)

\* Node-type tags and method names are kept as token sequences, so that
\* str.replace('.', '_') and the string concatenation of compose are modelled
\* by what they do: 'array.kpoints' is <<"array", ".", "kpoints">>.
NODES_TYPES ==
    (<<"dict">> :> <<"total_energies", "maximum_force", "maximum_stress", "symmetries",
                     "magnetization", "site_magnetization", "notifications">>)
    @@ (<<"array", ".", "kpoints">> :> <<"kpoints">>)
    @@ (<<"structure">> :> <<"structure">>)
    @@ (<<"array", ".", "trajectory">> :> <<"trajectory">>)
    @@ (<<"array", ".", "bands">> :> <<"eigenvalues", "kpoints", "occupancies">>)
    @@ (<<"vasp", ".", "chargedensity">> :> <<"chgcar">>)
    @@ (<<"vasp", ".", "wavefun">> :> <<"wavecar">>)
    @@ (<<"array">> :> <<>>)

DictQuantities == {NODES_TYPES[<<"dict">>][i] : i \in 1..7}

\* The names a registry can hold: the quantities of NODES_TYPES and two
\* alternatives of "structure".
QuantityNames ==
    UNION {{NODES_TYPES[nt][i] : i \in 1..Len(NODES_TYPES[nt])} : nt \in DOMAIN NODES_TYPES}
    \cup {"poscar-structure", "outcar-structure"}

RegistryNames == {"structure", "poscar-structure", "outcar-structure", "chgcar"}
UnknownNames == {"born_charges"}

OriginalName(n) == IF n = "chgcar" THEN "chgcar-file" ELSE n

Equivalents(n) ==
    CASE n = "structure" -> <<"poscar-structure", "outcar-structure">>
      [] n = "poscar-structure" -> <<"structure">>
      [] OTHER -> <<>>

FileName(n) ==
    CASE n = "structure" -> "vasprun.xml"
      [] n = "poscar-structure" -> "CONTCAR"
      [] n = "outcar-structure" -> "OUTCAR"
      [] n = "chgcar" -> "CHGCAR"
      [] OTHER -> "vasprun.xml"

Files == {"vasprun.xml", "CONTCAR", "OUTCAR", "CHGCAR"}

Quantity(n, parsable) ==
    [name |-> n, original_name |-> OriginalName(n), is_parsable |-> n \in parsable,
     equivalents |-> Equivalents(n), file_name |-> FileName(n)]

\* A registry of the names in `known`, of which those in `parsable` are parsable.
Registry(known, parsable) == [n \in known |-> Quantity(n, parsable)]

get_by_name(reg, quantity_name) ==
    IF quantity_name \in DOMAIN reg THEN reg[quantity_name] ELSE None

\* The quantity itself followed by its registered equivalents; nothing for a
\* name the registry does not know.
get_equivalent_quantities(reg, quantity_name) ==
    IF quantity_name \notin DOMAIN reg THEN <<>>
    ELSE <<reg[quantity_name]>> \o
         [i \in 1..Len(SelectSeq(reg[quantity_name].equivalents, LAMBDA e : e \in DOMAIN reg))
            |-> reg[SelectSeq(reg[quantity_name].equivalents, LAMBDA e : e \in DOMAIN reg)[i]]]

\* The files required by the quantity and its equivalents that are missing,
\* i.e. the files of those that are not parsable.
get_missing_files(reg, quantity_name) ==
    [i \in 1..Len(SelectSeq(get_equivalent_quantities(reg, quantity_name), LAMBDA q : ~q.is_parsable))
        |-> SelectSeq(get_equivalent_quantities(reg, quantity_name), LAMBDA q : ~q.is_parsable)[i].file_name]

-----------------------------------------------------------------------------
(* ParserManager *)

\* Mutant of _add_quantity_to_parse: the loop does not return at the first
\* parsable quantity, so every parsable one is appended.
RECURSIVE add_quantity_no_return(_, _)
add_quantity_no_return(to_parse, quants) ==
    IF quants = <<>> THEN [list |-> to_parse, success |-> FALSE]
    ELSE LET rest == add_quantity_no_return(
                        IF Head(quants).is_parsable
                        THEN Append(to_parse, Head(quants).original_name) ELSE to_parse,
                        Tail(quants))
         IN  [list |-> rest.list, success |-> rest.success \/ Head(quants).is_parsable]

\* _add_quantity_to_parse: the list after the call and the returned flag.
RECURSIVE add_quantity_to_parse_(_, _)
add_quantity_to_parse_(to_parse, quants) ==
    IF quants = <<>> THEN [list |-> to_parse, success |-> FALSE]
    ELSE IF Head(quants).is_parsable
         THEN [list |-> Append(to_parse, Head(quants).original_name), success |-> TRUE]
         ELSE add_quantity_to_parse_(to_parse, Tail(quants))

\* The loop of lines 66-69: the last missing file that is in neither list.
RECURSIVE not_in_retrieve_list_(_, _, _)
not_in_retrieve_list_(missing_files, retrieve_list, acc) ==
    IF missing_files = <<>> THEN acc
    ELSE not_in_retrieve_list_(Tail(missing_files), retrieve_list,
            IF ~InList(Head(missing_files), retrieve_list)
            THEN Val(Head(missing_files)) ELSE acc)

WarnNotImplemented(q) == [kind |-> "not_implemented", quantity |-> q]
WarnNotRetrieved(q, files) == [kind |-> "not_retrieved", quantity |-> q, missing_files |-> files]
WarnNotInRetrieveList(f) == [kind |-> "not_in_retrieve_list", file |-> f]

\* The warnings of lines 63-78 for a quantity that could not be added.
MissingFileWarnings(reg, jobnode, quantity_name) ==
    LET missing_files == get_missing_files(reg, quantity_name)
        retrieve_list == jobnode.retrieve_temporary_list \o jobnode.retrieve_list
        not_in_retrieve_list == not_in_retrieve_list_(missing_files, retrieve_list, None)
    IN  <<WarnNotRetrieved(quantity_name, missing_files)>> \o
        (IF not_in_retrieve_list # None
         THEN <<WarnNotInRetrieveList(not_in_retrieve_list.v)>> ELSE <<>>)

\* Mutant of the loop body: the `continue` after the warning is missing.
SetOneNoContinue(st, reg, jobnode, quantity_name) ==
    LET warned == IF get_by_name(reg, quantity_name) = None
                  THEN Append(st.log, WarnNotImplemented(quantity_name)) ELSE st.log
        r == add_quantity_to_parse_(st.list, get_equivalent_quantities(reg, quantity_name))
    IN  IF r.success THEN [list |-> r.list, log |-> warned]
        ELSE [list |-> r.list,
              log |-> warned \o MissingFileWarnings(reg, jobnode, quantity_name)]

\* Mutant of the loop body: the result of _add_quantity_to_parse is ignored.
SetOneIgnoresFailure(st, reg, jobnode, quantity_name) ==
    IF get_by_name(reg, quantity_name) = None
    THEN [list |-> st.list, log |-> Append(st.log, WarnNotImplemented(quantity_name))]
    ELSE [list |-> add_quantity_to_parse_(st.list, get_equivalent_quantities(reg, quantity_name)).list,
          log |-> st.log]

\* The body of the for loop of _set_quantities_to_parse for one name.
SetOne(st, reg, jobnode, quantity_name) ==
    IF get_by_name(reg, quantity_name) = None
    THEN [list |-> st.list, log |-> Append(st.log, WarnNotImplemented(quantity_name))]
    ELSE LET r == add_quantity_to_parse_(st.list, get_equivalent_quantities(reg, quantity_name))
         IN  IF r.success THEN [list |-> r.list, log |-> st.log]
             ELSE [list |-> r.list,
                   log |-> st.log \o MissingFileWarnings(reg, jobnode, quantity_name)]

RECURSIVE SetLoop(_, _, _, _)
SetLoop(st, reg, jobnode, names) ==
    IF names = <<>> THEN st
    ELSE SetLoop(SetOne(st, reg, jobnode, Head(names)), reg, jobnode, Tail(names))

\* _set_quantities_to_parse: the list is reset, then the names are processed
\* in order; iterating over None (the default argument) raises TypeError.
set_quantities_to_parse_(arg, reg, jobnode) ==
    IF arg = None
    THEN [list |-> <<>>, log |-> <<>>, raised |-> "TypeError"]
    ELSE LET st == SetLoop([list |-> <<>>, log |-> <<>>], reg, jobnode, arg.items)
         IN  [list |-> st.list, log |-> st.log, raised |-> NoError]

\* list.remove guarded by membership: the first occurrence is deleted.
RECURSIVE RemoveFirst(_, _)
RemoveFirst(list, x) ==
    IF list = <<>> THEN <<>>
    ELSE IF Head(list) = x THEN Tail(list)
         ELSE <<Head(list)>> \o RemoveFirst(Tail(list), x)

\* Mutant of remove: every occurrence of the quantity is deleted.
remove_all_occurrences(list, quantity) == SelectSeq(list, LAMBDA x : x # quantity)

remove(list, quantity) == IF InList(quantity, list) THEN RemoveFirst(list, quantity) ELSE list

-----------------------------------------------------------------------------
(* Node composer inputs: get_node_composer_inputs *)

\* dict.get on the parsed-quantity table (a function on the names it holds).
TableGet(table, k) == IF k \in DOMAIN table THEN table[k] ELSE None

\* _get_quantities_from_file_parser: a registry of the parser's parsable
\* items and the value get_quantity returns for each of them.
get_quantities_from_file_parser_(fp) ==
    [parsable_quantities |-> Registry(DOMAIN fp.quantities, DOMAIN fp.quantities),
     parsed_quantities |-> fp.quantities]

\* The loop of _get_alternative_parsed_quantity over the equivalent
\* quantities: every equivalent whose original name is a key of the table
\* overwrites inputs[quantity.name].
\* Mutant of the loop of _get_alternative_parsed_quantity: the scan stops at
\* the first equivalent whose original name is a key of the table.
RECURSIVE alternative_first_match(_, _, _)
alternative_first_match(quantity, equivalent, table) ==
    IF equivalent = <<>> THEN <<>>
    ELSE IF Head(equivalent).original_name \in DOMAIN table
         THEN <<<<quantity.name, table[Head(equivalent).original_name]>>>>
         ELSE alternative_first_match(quantity, Tail(equivalent), table)

RECURSIVE alternative_loop(_, _, _)
alternative_loop(quantity, equivalent, table) ==
    IF equivalent = <<>> THEN <<>>
    ELSE LET original_name == Head(equivalent).original_name
             rest == alternative_loop(quantity, Tail(equivalent), table)
         IN  IF original_name \in DOMAIN table
             THEN DictUpdate(<<<<quantity.name, table[original_name]>>>>, rest)
             ELSE rest

get_alternative_parsed_quantity_(quantity_name, quantity, reg, table) ==
    alternative_loop(quantity, get_equivalent_quantities(reg, quantity_name), table)

\* The body of the for loop of _collect_quantity_data for one name.
CollectOne(st, reg, table, quantity_name) ==
    LET quantity == get_by_name(reg, quantity_name)
        parsed_quantity == TableGet(table, quantity_name)
    IN  IF st.error # NoError THEN st
        ELSE IF parsed_quantity = None
        THEN [inputs |-> DictUpdate(st.inputs,
                            get_alternative_parsed_quantity_(quantity_name, quantity, reg, table)),
              error |-> NoError]
        ELSE IF quantity = None
        THEN [inputs |-> st.inputs, error |-> "AttributeError"]
        ELSE [inputs |-> DictSet(st.inputs, quantity.name, parsed_quantity), error |-> NoError]

RECURSIVE CollectLoop(_, _, _, _)
CollectLoop(st, reg, table, names) ==
    IF names = <<>> THEN st
    ELSE CollectLoop(CollectOne(st, reg, table, Head(names)), reg, table, Tail(names))

\* NODES_TYPES.get(node_type)
NodesTypesGet(tag) == IF tag \in DOMAIN NODES_TYPES THEN List(NODES_TYPES[tag]) ELSE None

\* The names _collect_quantity_data iterates over.
QuantityNamesOf(tag, qnames) ==
    IF qnames = None THEN NodesTypesGet(tag) ELSE qnames

\* _collect_quantity_data; iterating over None raises TypeError.
collect_quantity_data_(reg, table, tag, qnames) ==
    LET names == QuantityNamesOf(tag, qnames)
    IN  IF names = None THEN [inputs |-> <<>>, error |-> "TypeError"]
        ELSE CollectLoop([inputs |-> <<>>, error |-> NoError], reg, table, names.items)

\* The registry and the table get_node_composer_inputs works on.
EffectiveRegistry(reg, table, fp) ==
    IF fp = None THEN reg
    ELSE get_quantities_from_file_parser_(fp).parsable_quantities

EffectiveTable(reg, table, fp) ==
    IF fp = None THEN table
    ELSE get_quantities_from_file_parser_(fp).parsed_quantities

get_node_composer_inputs(reg, table, fp, tag, qnames) ==
    collect_quantity_data_(EffectiveRegistry(reg, table, fp),
                           EffectiveTable(reg, table, fp), tag, qnames)

-----------------------------------------------------------------------------
(* NodeComposer *)

Ok(n) == [node |-> n, error |-> NoError]
Fail(e) == [node |-> None, error |-> e]

\* get_data_class: the data class of a known node type; the lookup of any
\* other entry point fails.
get_data_class(tag) ==
    IF tag \in DOMAIN NODES_TYPES THEN [class |-> tag, error |-> NoError]
    ELSE [class |-> None, error |-> "MissingEntryPointError"]

\* node_type.replace('.', '_')
Replace(tag) == [i \in 1..Len(tag) |-> IF tag[i] = "." THEN "_" ELSE tag[i]]

\* '_compose_' + node_type.replace('.', '_')
MethodName(tag) == <<"_compose_">> \o Replace(tag)

\* The _compose_* attributes of the class NodeComposer.
Methods ==
    {<<"_compose_", "dict">>, <<"_compose_", "structure">>, <<"_compose_", "array">>,
     <<"_compose_", "vasp", "_", "wavefun">>, <<"_compose_", "vasp", "_", "chargedensity">>,
     <<"_compose_", "array", "_", "bands">>, <<"_compose_", "array", "_", "kpoints">>,
     <<"_compose_", "array", "_", "trajectory">>}

\* Mutant of _compose_dict: every quantity the node type requires gets an
\* entry, None when it is absent from the inputs.
compose_dict_defaulted(tag, d) ==
    IF get_data_class(tag).error # NoError THEN Fail(get_data_class(tag).error)
    ELSE Ok([class |-> tag,
             dict |-> [k \in DictKeys(d) \cup {NODES_TYPES[tag][i] : i \in 1..Len(NODES_TYPES[tag])}
                          |-> DictGet(d, k)]])

compose_dict_(tag, d) ==
    IF get_data_class(tag).error # NoError THEN Fail(get_data_class(tag).error)
    ELSE Ok([class |-> tag, dict |-> DictContent(d)])

\* The sites loop of _compose_structure: append_atom for every site.
RECURSIVE AppendAtoms(_, _)
AppendAtoms(st, sites) ==
    IF st.error # NoError \/ sites = <<>> THEN st
    ELSE LET site == Head(sites)
             err == IF SubErr(site, "position") # NoError THEN SubErr(site, "position")
                    ELSE IF SubErr(site, "symbol") # NoError THEN SubErr(site, "symbol")
                    ELSE SubErr(site, "kind_name")
         IN  IF err # NoError THEN [st EXCEPT !.error = err]
             ELSE AppendAtoms(
                     [st EXCEPT !.sites = Append(@, [position |-> Sub(site, "position"),
                                                     symbols |-> Sub(site, "symbol"),
                                                     name |-> Sub(site, "kind_name")])],
                     Tail(sites))

RECURSIVE StructureLoop(_, _)
StructureLoop(st, d) ==
    IF st.error # NoError \/ d = <<>> THEN st
    ELSE LET v == Head(d)[2]
         IN  IF SubErr(v, "unitcell") # NoError THEN [st EXCEPT !.error = SubErr(v, "unitcell")]
             ELSE IF SubErr(v, "sites") # NoError THEN [st EXCEPT !.error = "KeyError", !.cell = Sub(v, "unitcell")]
             ELSE IF Sub(v, "sites").t # "list" THEN [st EXCEPT !.error = "TypeError", !.cell = Sub(v, "unitcell")]
             ELSE StructureLoop(AppendAtoms([st EXCEPT !.cell = Sub(v, "unitcell")], Sub(v, "sites").items),
                                Tail(d))

compose_structure_(tag, d) ==
    IF get_data_class(tag).error # NoError THEN Fail(get_data_class(tag).error)
    ELSE LET st == StructureLoop([class |-> tag, cell |-> None, sites |-> <<>>, error |-> NoError], d)
         IN  IF st.error # NoError THEN Fail(st.error)
             ELSE Ok([class |-> st.class, cell |-> st.cell, sites |-> st.sites])

\* set_array / set_attribute for every key of one input item; `symbols` names
\* the key stored as an attribute ("" for none).
RECURSIVE SetArrays(_, _, _)
SetArrays(st, pairs, symbols) ==
    IF pairs = <<>> THEN st
    ELSE SetArrays(
            IF Head(pairs)[1] = symbols
            THEN [st EXCEPT !.attributes = DictSet(@, Head(pairs)[1], Head(pairs)[2])]
            ELSE [st EXCEPT !.arrays = DictSet(@, Head(pairs)[1], Head(pairs)[2])],
            Tail(pairs), symbols)

RECURSIVE ArrayLoop(_, _, _)
ArrayLoop(st, d, symbols) ==
    IF st.error # NoError \/ d = <<>> THEN st
    ELSE IF Head(d)[2].t # "dict" THEN [st EXCEPT !.error = "AttributeError"]
    ELSE ArrayLoop(SetArrays(st, Head(d)[2].pairs, symbols), Tail(d), symbols)

ComposeArrays(tag, d, symbols) ==
    IF get_data_class(tag).error # NoError THEN Fail(get_data_class(tag).error)
    ELSE LET st == ArrayLoop([class |-> tag, arrays |-> <<>>, attributes |-> <<>>, error |-> NoError],
                             d, symbols)
         IN  IF st.error # NoError THEN Fail(st.error)
             ELSE Ok([class |-> st.class, arrays |-> DictContent(st.arrays),
                      attributes |-> DictContent(st.attributes)])

compose_array_(tag, d) == ComposeArrays(tag, d, "")

\* Mutant of _compose_array_trajectory: 'symbols' is stored with set_array
\* like every other key.
compose_array_trajectory_all_arrays(tag, d) == ComposeArrays(tag, d, "")

compose_array_trajectory_(tag, d) == ComposeArrays(tag, d, "symbols")

\* The loop of _compose_vasp_wavefun / _compose_vasp_chargedensity: the node
\* starts as None and every key replaces it by a node wrapping its value.
RECURSIVE BlobLoop(_, _, _)
BlobLoop(res, tag, d) ==
    IF res.error # NoError \/ d = <<>> THEN res
    ELSE IF get_data_class(tag).error # NoError THEN Fail(get_data_class(tag).error)
    ELSE BlobLoop(Ok([class |-> tag, file |-> Head(d)[2]]), tag, Tail(d))

compose_vasp_wavefun_(tag, d) == BlobLoop(Ok(None), tag, d)

compose_vasp_chargedensity_(tag, d) == BlobLoop(Ok(None), tag, d)

\* kpoint.get_point().tolist() and kpoint.get_weight() for every point.
kpoint_list_(kpoints) == [i \in 1..Len(kpoints) |-> List(kpoints[i].point.data)]
weights_(kpoints) == [i \in 1..Len(kpoints) |-> kpoints[i].weight]

\* Mutant of the loop body of _compose_array_kpoints: mesh and offset are
\* passed in the wrong order.
KpointsOneSwapped(st, v) ==
    IF SubErr(v, "mode") # NoError THEN [st EXCEPT !.error = SubErr(v, "mode")]
    ELSE IF Sub(v, "mode") = Str("explicit")
    THEN LET kpoints == Sub(v, "points")
         IN  IF kpoints.t # "list" THEN [st EXCEPT !.error = "TypeError"]
             ELSE IF kpoints.items = <<>> THEN [st EXCEPT !.error = "IndexError"]
             ELSE [st EXCEPT !.kpoints = List(kpoint_list_(kpoints.items)),
                             !.weights = IF weights_(kpoints.items)[1] = None THEN None
                                         ELSE List(weights_(kpoints.items)),
                             !.cartesian = Val(~kpoints.items[1].direct)]
    ELSE IF Sub(v, "mode") = Str("automatic")
    THEN [st EXCEPT !.mesh = Sub(v, "shifts"), !.offset = Sub(v, "divisions")]
    ELSE st

\* Mutant of the loop body of _compose_array_kpoints: the direct flag is
\* passed on as the cartesian flag, without the negation.
KpointsOneDirectAsCartesian(st, v) ==
    IF SubErr(v, "mode") # NoError THEN [st EXCEPT !.error = SubErr(v, "mode")]
    ELSE IF Sub(v, "mode") = Str("explicit")
    THEN LET kpoints == Sub(v, "points")
         IN  IF kpoints.t # "list" THEN [st EXCEPT !.error = "TypeError"]
             ELSE IF kpoints.items = <<>> THEN [st EXCEPT !.error = "IndexError"]
             ELSE [st EXCEPT !.kpoints = List(kpoint_list_(kpoints.items)),
                             !.weights = IF weights_(kpoints.items)[1] = None THEN None
                                         ELSE List(weights_(kpoints.items)),
                             !.cartesian = Val(kpoints.items[1].direct)]
    ELSE IF Sub(v, "mode") = Str("automatic")
    THEN [st EXCEPT !.mesh = Sub(v, "divisions"), !.offset = Sub(v, "shifts")]
    ELSE st

\* One iteration of the loop of _compose_array_kpoints.
KpointsOne(st, v) ==
    IF SubErr(v, "mode") # NoError THEN [st EXCEPT !.error = SubErr(v, "mode")]
    ELSE IF Sub(v, "mode") = Str("explicit")
    THEN LET kpoints == Sub(v, "points")
         IN  IF kpoints.t # "list" THEN [st EXCEPT !.error = "TypeError"]
             ELSE IF kpoints.items = <<>> THEN [st EXCEPT !.error = "IndexError"]
             ELSE [st EXCEPT !.kpoints = List(kpoint_list_(kpoints.items)),
                             !.weights = IF weights_(kpoints.items)[1] = None THEN None
                                         ELSE List(weights_(kpoints.items)),
                             !.cartesian = Val(~kpoints.items[1].direct)]
    ELSE IF Sub(v, "mode") = Str("automatic")
    THEN [st EXCEPT !.mesh = Sub(v, "divisions"), !.offset = Sub(v, "shifts")]
    ELSE st

RECURSIVE KpointsLoop(_, _)
KpointsLoop(st, d) ==
    IF st.error # NoError \/ d = <<>> THEN st
    ELSE KpointsLoop(KpointsOne(st, Head(d)[2]), Tail(d))

EmptyKpointsData(tag) ==
    [class |-> tag, kpoints |-> None, weights |-> None, cartesian |-> None,
     mesh |-> None, offset |-> None, error |-> NoError]

compose_array_kpoints_(tag, d) ==
    IF get_data_class(tag).error # NoError THEN Fail(get_data_class(tag).error)
    ELSE LET st == KpointsLoop(EmptyKpointsData(tag), d)
         IN  IF st.error # NoError THEN Fail(st.error)
             ELSE Ok([class |-> st.class, kpoints |-> st.kpoints, weights |-> st.weights,
                      cartesian |-> st.cartesian, mesh |-> st.mesh, offset |-> st.offset])

\* Mutant of _compose_array_bands: the inputs are read with dict.get, so an
\* absent quantity does not raise.
compose_array_bands_get(tag, d) ==
    IF get_data_class(tag).error # NoError THEN Fail(get_data_class(tag).error)
    ELSE LET kpoints == compose_array_kpoints_(<<"array", ".", "kpoints">>,
                            IF DictHas(d, "kpoints") THEN <<<<"kpoints", DictGet(d, "kpoints")>>>>
                            ELSE <<>>)
         IN  IF kpoints.error # NoError THEN Fail(kpoints.error)
             ELSE Ok([class |-> tag, kpointsdata |-> kpoints.node,
                      bands |-> DictGet(d, "eigenvalues"),
                      occupations |-> DictGet(d, "occupancies")])

compose_array_bands_(tag, d) ==
    IF get_data_class(tag).error # NoError THEN Fail(get_data_class(tag).error)
    ELSE IF ~DictHas(d, "kpoints") THEN Fail("KeyError")
    ELSE LET kpoints == compose_array_kpoints_(<<"array", ".", "kpoints">>,
                                               <<<<"kpoints", DictGet(d, "kpoints")>>>>)
         IN  IF kpoints.error # NoError THEN Fail(kpoints.error)
             ELSE IF ~DictHas(d, "eigenvalues") \/ ~DictHas(d, "occupancies") THEN Fail("KeyError")
             ELSE Ok([class |-> tag, kpointsdata |-> kpoints.node,
                      bands |-> DictGet(d, "eigenvalues"),
                      occupations |-> DictGet(d, "occupancies")])

\* The routine getattr finds under a method name.
Routine(method, tag, d) ==
    CASE method = <<"_compose_", "dict">> -> compose_dict_(tag, d)
      [] method = <<"_compose_", "structure">> -> compose_structure_(tag, d)
      [] method = <<"_compose_", "array">> -> compose_array_(tag, d)
      [] method = <<"_compose_", "vasp", "_", "wavefun">> -> compose_vasp_wavefun_(tag, d)
      [] method = <<"_compose_", "vasp", "_", "chargedensity">> -> compose_vasp_chargedensity_(tag, d)
      [] method = <<"_compose_", "array", "_", "bands">> -> compose_array_bands_(tag, d)
      [] method = <<"_compose_", "array", "_", "kpoints">> -> compose_array_kpoints_(tag, d)
      [] method = <<"_compose_", "array", "_", "trajectory">> -> compose_array_trajectory_(tag, d)

\* NodeComposer.compose: getattr raises AttributeError for a name that is no
\* attribute of the class.
compose(tag, d) ==
    IF MethodName(tag) \notin Methods THEN Fail("AttributeError")
    ELSE Routine(MethodName(tag), tag, d)

-----------------------------------------------------------------------------
(* VaspWorkChain: the steps of the outline *)

\* A data node: its identity and, for a Dict node, its content.  A node of
\* the workchain inputs is identified by the name of its port, a node made by
\* get_data_node by the number of its creation.
InputId(name) == [origin |-> "inputs", name |-> name]
CreatedId(n) == [origin |-> "created", n |-> n]
DataNode(id) == [id |-> id]
DictNode(id, d) == [id |-> id, dict |-> d]

\* An exception a call ends with.
Raise(exc) == [t |-> "raise", exc |-> exc]

\* AttributeDict / dict item assignment.
SetAttr(d, k, v) == [x \in DOMAIN d \cup {k} |-> IF x = k THEN v ELSE d[x]]

\* A calculation node of the given process class.
Calc(class, remote_folder) == [t |-> "calc", class |-> class, remote_folder |-> remote_folder]

\* _calculation = CalculationFactory('vasp.vasp')
calculation_ == "vasp.vasp"

\* isinstance(restart_calc, self._calculation)
IsVaspCalculation(calc) == calc.t = "calc" /\ calc.class = calculation_

\* The context before any step has run, and as init_context leaves it.
EmptyContext == [inputs |-> <<>>, restart_calc |-> None, iteration |-> 0, calculations |-> <<>>]

\* The object as constructed: the class attribute _verbose is False, nothing
\* has been reported.
NewWorkChain == [exit_status |-> None, exit_message |-> None, verbose |-> FALSE, reports |-> <<>>]

\* The steps named in the outline.
OutlineSteps ==
    {"init_context", "init_inputs", "run_calculations", "init_calculation", "run_calculation",
     "verify_calculation", "results", "finalize"}

\* The engine ends the workchain when a step returns a non-zero integer.
Stops(ret) == ret.t = "int" /\ ret.n # 0

\* Mutant of the outline: the loop body starts at run_calculation.
OutlineNextSkipsInit(last, ret) ==
    CASE last = "" -> "init_context"
      [] last = "init_context" -> "init_inputs"
      [] last = "init_inputs" -> "run_calculations"
      [] last = "run_calculations" -> IF ret = BoolVal(TRUE) THEN "run_calculation" ELSE "results"
      [] last = "init_calculation" -> "run_calculation"
      [] last = "run_calculation" -> "verify_calculation"
      [] last = "verify_calculation" -> "run_calculations"
      [] last = "results" -> "finalize"

\* spec.outline: the step that follows the step `last`, which returned `ret`.
OutlineNext(last, ret) ==
    CASE last = "" -> "init_context"
      [] last = "init_context" -> "init_inputs"
      [] last = "init_inputs" -> "run_calculations"
      [] last = "run_calculations" -> IF ret = BoolVal(TRUE) THEN "init_calculation" ELSE "results"
      [] last = "init_calculation" -> "run_calculation"
      [] last = "run_calculation" -> "verify_calculation"
      [] last = "verify_calculation" -> "run_calculations"
      [] last = "results" -> "finalize"

\* options.get('parser_name', 'vasp.vasp') stored back under 'parser_name'.
WithParserName(options) ==
    SetAttr(options, "parser_name",
            IF "parser_name" \in DOMAIN options THEN options["parser_name"] ELSE "vasp.vasp")

\* init_inputs: the calculation inputs it builds, the attributes it leaves on
\* the workchain object and the value it returns.
init_inputs_(inp, pot, wc) ==
    LET required == [code |-> inp["code"], structure |-> inp["structure"],
                     kpoints |-> inp["kpoints"], parameters |-> inp["parameters"]]
        with_settings == IF "settings" \in DOMAIN inp
                         THEN SetAttr(required, "settings", inp["settings"]) ELSE required
        with_metadata == IF "options" \in DOMAIN inp
                         THEN SetAttr(with_settings, "metadata",
                                      [options |-> WithParserName(inp["options"])])
                         ELSE with_settings
        with_potential == SetAttr(with_metadata, "potential", pot)
        with_chgcar == IF "chgcar" \in DOMAIN inp
                       THEN SetAttr(with_potential, "charge_density", inp["chgcar"])
                       ELSE with_potential
        with_wavecar == IF "wavecar" \in DOMAIN inp
                        THEN SetAttr(with_chgcar, "wavefunctions", inp["wavecar"])
                        ELSE with_chgcar
    IN  IF inp["potential_family"] = Str("")
        THEN [inputs |-> with_metadata,
              workchain |-> [wc EXCEPT !.reports = Append(@, "empty potential family")],
              returned |-> IntVal(1)]
        ELSE IF pot.t = "raise"
        THEN [inputs |-> with_metadata,
              workchain |-> [wc EXCEPT !.exit_status = IntVal(1), !.exit_message = Str(pot.exc)],
              returned |-> None]
        ELSE [inputs |-> with_wavecar,
              workchain |-> [wc EXCEPT !.verbose = inp["verbose"]],
              returned |-> None]

\* parameters.<tag> = 1 under `if '<tag>' in parameters`.
SetTag(parameters, tag) ==
    IF tag \in DOMAIN parameters THEN [parameters EXCEPT ![tag] = 1] ELSE parameters

\* Mutant of init_calculation: istart and icharg are set without the
\* membership tests.
init_calculation_adds_tags(c, created) ==
    IF IsVaspCalculation(c.restart_calc)
    THEN LET old_parameters == c.inputs["parameters"].dict
             parameters == SetAttr(SetAttr(old_parameters, "istart", 1), "icharg", 1)
             with_folder == SetAttr(c.inputs, "restart_folder", c.restart_calc.remote_folder)
         IN  IF parameters # old_parameters
             THEN [ctx |-> [c EXCEPT !.inputs = SetAttr(with_folder, "parameters",
                                                         DictNode(CreatedId(created + 1), parameters))],
                   created |-> created + 1]
             ELSE [ctx |-> [c EXCEPT !.inputs = with_folder], created |-> created]
    ELSE [ctx |-> c, created |-> created]

\* init_calculation: the context after it and the number of created nodes.
init_calculation_(c, created) ==
    IF IsVaspCalculation(c.restart_calc)
    THEN LET old_parameters == c.inputs["parameters"].dict
             parameters == SetTag(SetTag(old_parameters, "istart"), "icharg")
             with_folder == SetAttr(c.inputs, "restart_folder", c.restart_calc.remote_folder)
         IN  IF parameters # old_parameters
             THEN [ctx |-> [c EXCEPT !.inputs = SetAttr(with_folder, "parameters",
                                                         DictNode(CreatedId(created + 1), parameters))],
                   created |-> created + 1]
             ELSE [ctx |-> [c EXCEPT !.inputs = with_folder], created |-> created]
    ELSE [ctx |-> c, created |-> created]

\* on_except: what it reports.  Reading the scheduler files of the last
\* calculation can fail with AttributeError, which is caught.
on_except_(c, wc, readable) ==
    IF c.calculations = <<>> THEN wc
    ELSE IF readable
    THEN [wc EXCEPT !.reports = @ \o <<"last calculation", "scheduler output", "scheduler stderr">>]
    ELSE [wc EXCEPT !.reports = @ \o <<"last calculation", "no calculation found">>]

-----------------------------------------------------------------------------
(* Inputs and steps of the workchain *)

\* The INCAR tags of the parameters input.
ParametersDicts ==
    {<<>>,
     ("istart" :> 0),
     ("istart" :> 1) @@ ("icharg" :> 1),
     ("icharg" :> 2) @@ ("encut" :> 200),
     ("istart" :> 0) @@ ("icharg" :> 0)}

OptionsDicts == {("queue_name" :> "default"), ("parser_name" :> "vasp.custom")}

\* The inputs with the ports that are not required left out or all given.
OptionalInputs(given, inp) ==
    IF given
    THEN SetAttr(SetAttr(SetAttr(inp, "settings", DataNode(InputId("settings"))),
                         "chgcar", DataNode(InputId("chgcar"))),
                 "wavecar", DataNode(InputId("wavecar")))
    ELSE inp

WorkChainInputs ==
    {OptionalInputs(given,
        [code |-> DataNode(InputId("code")),
         structure |-> DataNode(InputId("structure")),
         kpoints |-> DataNode(InputId("kpoints")),
         potential_family |-> family,
         potential_mapping |-> DataNode(InputId("potential_mapping")),
         parameters |-> DictNode(InputId("parameters"), parameters),
         options |-> options,
         verbose |-> verbose]) :
        given \in BOOLEAN, family \in {Str(""), Str("PBE")}, parameters \in ParametersDicts,
        options \in OptionsDicts, verbose \in BOOLEAN}

\* get_potcars_from_structure finds the potentials or raises.
PotcarLookups == {[t |-> "potcars"], Raise("ValueError"), Raise("NotExistent")}

\* The exit code a step of the base class gives up with.
BaseExitCode == 400

\* What the base class can leave in ctx.restart_calc after the calculation
\* of this iteration.
RestartCalcs(iteration) ==
    {None,
     Calc(calculation_, DataNode([origin |-> "remote_folder", n |-> iteration])),
     Calc("vasp.immigrant", DataNode([origin |-> "remote_folder", n |-> iteration]))}

InitWorkChain ==
    /\ wc_inputs \in WorkChainInputs
    /\ potcars \in PotcarLookups
    /\ ctx = EmptyContext
    /\ workchain = NewWorkChain
    /\ nodes_created = 0
    /\ step = ""
    /\ returned = None

\* No workchain is run.
IdleWorkChain ==
    /\ wc_inputs = <<>>
    /\ potcars = None
    /\ ctx = EmptyContext
    /\ workchain = NewWorkChain
    /\ nodes_created = 0
    /\ step = ""
    /\ returned = None

\* The engine runs the step `name` next.
NextIs(name) ==
    /\ step \notin {"finalize", "on_except"}
    /\ returned.t # "raise"
    /\ ~Stops(returned)
    /\ OutlineNext(step, returned) = name

otherVars == <<managerVars, composerVars, last_call>>

\* BaseRestartWorkChain.init_context
InitContext ==
    /\ NextIs("init_context")
    /\ ctx' = EmptyContext
    /\ step' = "init_context"
    /\ returned' = None
    /\ UNCHANGED <<wc_inputs, potcars, workchain, nodes_created, otherVars>>

\* VaspWorkChain.init_inputs
InitInputs ==
    /\ NextIs("init_inputs")
    /\ LET r == init_inputs_(wc_inputs, potcars, workchain)
       IN  /\ ctx' = [ctx EXCEPT !.inputs = r.inputs]
           /\ workchain' = r.workchain
           /\ returned' = r.returned
    /\ step' = "init_inputs"
    /\ UNCHANGED <<wc_inputs, potcars, nodes_created, otherVars>>

\* BaseRestartWorkChain.run_calculations, the guard of the loop: it can
\* return either value; the model ends the loop after MaxIterations.
RunCalculations ==
    /\ NextIs("run_calculations")
    /\ \E b \in BOOLEAN :
          /\ b => ctx.iteration < MaxIterations
          /\ returned' = BoolVal(b)
    /\ step' = "run_calculations"
    /\ UNCHANGED <<wc_inputs, potcars, ctx, workchain, nodes_created, otherVars>>

\* VaspWorkChain.init_calculation
InitCalculation ==
    /\ NextIs("init_calculation")
    /\ LET r == init_calculation_(ctx, nodes_created)
       IN  /\ ctx' = r.ctx
           /\ nodes_created' = r.created
    /\ step' = "init_calculation"
    /\ returned' = None
    /\ UNCHANGED <<wc_inputs, potcars, workchain, otherVars>>

\* BaseRestartWorkChain.run_calculation: launches the calculation with
\* ctx.inputs, gives up with an exit code, or raises.
RunCalculation ==
    /\ NextIs("run_calculation")
    /\ \/ /\ ctx' = [ctx EXCEPT !.iteration = @ + 1, !.calculations = Append(@, ctx.inputs)]
          /\ returned' = None
       \/ /\ ctx' = ctx
          /\ returned' \in {IntVal(BaseExitCode), Raise("Exception")}
    /\ step' = "run_calculation"
    /\ UNCHANGED <<wc_inputs, potcars, workchain, nodes_created, otherVars>>

\* BaseRestartWorkChain.verify_calculation: decides what to restart from.
VerifyCalculation ==
    /\ NextIs("verify_calculation")
    /\ \E calc \in RestartCalcs(ctx.iteration) : ctx' = [ctx EXCEPT !.restart_calc = calc]
    /\ returned' \in {None, IntVal(BaseExitCode)}
    /\ step' = "verify_calculation"
    /\ UNCHANGED <<wc_inputs, potcars, workchain, nodes_created, otherVars>>

\* BaseRestartWorkChain.results
Results ==
    /\ NextIs("results")
    /\ returned' \in {None, IntVal(BaseExitCode)}
    /\ step' = "results"
    /\ UNCHANGED <<wc_inputs, potcars, ctx, workchain, nodes_created, otherVars>>

\* VaspWorkChain.on_except: the engine calls it when a step has raised.
OnExcept ==
    /\ step # "on_except"
    /\ returned.t = "raise"
    /\ \E readable \in BOOLEAN : workchain' = on_except_(ctx, workchain, readable)
    /\ step' = "on_except"
    /\ UNCHANGED <<wc_inputs, potcars, ctx, nodes_created, returned, otherVars>>

\* BaseRestartWorkChain.finalize
Finalize ==
    /\ NextIs("finalize")
    /\ returned' = None
    /\ step' = "finalize"
    /\ UNCHANGED <<wc_inputs, potcars, ctx, workchain, nodes_created, otherVars>>

-----------------------------------------------------------------------------
(* Inputs of the ParserManager operations *)

NoRepeat(s) == \A i, j \in 1..Len(s) : s[i] = s[j] => i = j

\* The file names the job's retrieve lists are drawn from.
RetrieveListFiles == {"vasprun.xml", "CONTCAR"}

\* The job's two retrieve lists, MaxRetrieve file names in all.
JobNodes ==
    {[retrieve_temporary_list |-> a, retrieve_list |-> b] :
        a, b \in {s \in SeqUpTo(RetrieveListFiles, MaxRetrieve) : NoRepeat(s)}}

RequestedNames == {"structure", "chgcar"} \cup UnknownNames

RequestedArgs ==
    {None} \cup {[t |-> "list", items |-> s] : s \in SeqUpTo(RequestedNames, MaxRequested)}

KnownSets == {RegistryNames, RegistryNames \ {"outcar-structure"}}

ManagerRegistries == {Registry(k, p) : k \in KnownSets, p \in SUBSET RegistryNames}

EmptyRegistry == Registry({}, {})

InitManager ==
    /\ node_ \in {n \in JobNodes : Len(n.retrieve_temporary_list) + Len(n.retrieve_list) <= MaxRetrieve}
    /\ quantities_to_parse_ = <<>>
    /\ quantities \in ManagerRegistries
    /\ requested = None
    /\ warnings = <<>>
    /\ raised = NoError
    /\ removed = None

\* The ParserManager as constructed, when only the composer is exercised.
IdleManager ==
    /\ node_ = [retrieve_temporary_list |-> <<>>, retrieve_list |-> <<>>]
    /\ quantities_to_parse_ = <<>>
    /\ quantities = EmptyRegistry
    /\ requested = None
    /\ warnings = <<>>
    /\ raised = NoError
    /\ removed = None

\* No composer call has been made.
IdleComposer ==
    /\ parsable_quantities = EmptyRegistry
    /\ parsed_quantities = <<>>
    /\ file_parser = None
    /\ node_type = <<>>
    /\ quantity_names = None
    /\ inputs = <<>>
    /\ composed_type = <<>>
    /\ node = None
    /\ error = NoError

\* ParserManager.setup
Setup ==
    \E arg \in RequestedArgs :
        LET r == set_quantities_to_parse_(arg, quantities, node_)
        IN  /\ quantities_to_parse_' = r.list
            /\ warnings' = r.log
            /\ raised' = r.raised
            /\ requested' = arg
            /\ removed' = None
            /\ last_call' = "setup"
            /\ UNCHANGED <<node_, quantities, composerVars, workchainVars>>

\* The arguments of remove: original names that setup can have selected.
RemovedNames == {OriginalName(n) : n \in {"chgcar", "poscar-structure"}}

\* ParserManager.remove
Remove ==
    \E quantity \in RemovedNames :
        /\ quantities_to_parse_' = remove(quantities_to_parse_, quantity)
        /\ raised' = NoError
        /\ removed' = Str(quantity)
        /\ last_call' = "remove"
        /\ UNCHANGED <<node_, quantities, requested, warnings, composerVars, workchainVars>>

InitM == InitManager /\ IdleComposer /\ IdleWorkChain /\ last_call = "init"
NextManager == Setup \/ Remove
SpecManager == InitM /\ [][NextManager]_vars

-----------------------------------------------------------------------------
(* Inputs of the composer operations *)

SupportedTags == DOMAIN NODES_TYPES

\* Tags that are no key of NODES_TYPES.
UnsupportedTags == {<<"vasp", "_", "wavefun">>, <<"array", "_", "kpoints">>, <<"bands">>}

\* A k-point as the KPOINTS parser hands it over: get_point() is an array.
KpointObjects ==
    [point : {NdArray(<<0, 0, 0>>), NdArray(<<5, 0, 0>>)}, weight : {None, Val(1)}, direct : BOOLEAN]

AutomaticKpoints ==
    {Dict(<<<<"mode", Str("automatic")>>, <<"divisions", d>>, <<"shifts", sh>>>>) :
        d \in {List(<<2, 2, 2>>), List(<<4, 4, 2>>)}, sh \in {List(<<0, 0, 0>>), List(<<1, 1, 1>>)}}

ExplicitKpoints ==
    {Dict(<<<<"mode", Str("explicit")>>, <<"points", List(pts)>>>>) :
        pts \in SeqUpTo(KpointObjects, MaxPoints) \ {<<>>}}

KpointsValues ==
    AutomaticKpoints \cup ExplicitKpoints \cup {Dict(<<<<"mode", Str("line")>>>>)}

Site(n) == Dict(<<<<"position", Val(n)>>, <<"symbol", Str("Si")>>, <<"kind_name", Str("Si")>>>>)

StructureValues ==
    {Dict(<<<<"unitcell", Val(1)>>, <<"sites", List(<<Site(1)>>)>>>>),
     Dict(<<<<"unitcell", Val(2)>>, <<"sites", List(<<Site(1), Site(2)>>)>>>>)}

TrajectoryValues ==
    {Dict(<<<<"cells", Val(1)>>, <<"symbols", Val(2)>>, <<"positions", Val(3)>>>>),
     Dict(<<<<"positions", Val(3)>>, <<"cells", Val(1)>>>>)}

\* The values a parser can store in the table under a key, None included.
ValuesFor(k) ==
    {None} \cup
    (CASE k = "kpoints" -> KpointsValues
       [] k \in {"structure", "poscar-structure", "outcar-structure"} -> StructureValues
       [] k = "trajectory" -> TrajectoryValues
       [] OTHER -> {Val(1), Val(2)})

\* All tables over the keys S.
RECURSIVE TablesOver(_)
TablesOver(S) ==
    IF S = {} THEN {<<>>}
    ELSE LET k == CHOOSE k \in S : TRUE
         IN  {(k :> v) @@ f : f \in TablesOver(S \ {k}), v \in ValuesFor(k)}

\* The keys the collection looks up for the names: the names the registry
\* knows and the original names of their equivalents.
RelevantKeys(reg, names) ==
    UNION {{names[i]} \cup
           {get_equivalent_quantities(reg, names[i])[j].original_name :
               j \in 1..Len(get_equivalent_quantities(reg, names[i]))} :
           i \in {i \in 1..Len(names) : names[i] \in DOMAIN reg}}

\* The tables of at most MaxParsed entries a parser run can hand over for
\* the names.
Tables(reg, names) ==
    UNION {TablesOver(S) : S \in {S \in SUBSET RelevantKeys(reg, names) : Cardinality(S) <= MaxParsed}}

ComposerRegistries ==
    {Registry(k, k) : k \in {QuantityNames,
                             QuantityNames \ {"maximum_force", "outcar-structure", "occupancies"}}}
    \cup {Registry(QuantityNames, QuantityNames \ {"structure"})}

QuantityNamesArgs == {None, List(<<"wavecar", "chgcar">>)}

FileParsers ==
    {[quantities |-> t] :
        t \in {("total_energies" :> Val(1)) @@ ("maximum_force" :> None),
               ("kpoints" :> Dict(<<<<"mode", Str("automatic")>>, <<"divisions", List(<<2, 2, 2>>)>>,
                                    <<"shifts", List(<<0, 0, 0>>)>>>>)),
               ("chgcar" :> Val(1)),
               ("structure" :> None)}}

\* The arguments of one get_node_composer_inputs call.
InitComposer ==
    /\ node_type \in SupportedTags \cup UnsupportedTags
    /\ quantity_names \in QuantityNamesArgs
    /\ \/ /\ file_parser = None
          /\ parsable_quantities \in ComposerRegistries
          /\ parsed_quantities \in
                IF QuantityNamesOf(node_type, quantity_names) = None THEN {<<>>}
                ELSE Tables(parsable_quantities, QuantityNamesOf(node_type, quantity_names).items)
       \/ /\ file_parser \in FileParsers
          /\ quantity_names = None
          /\ parsable_quantities = EmptyRegistry
          /\ parsed_quantities = <<>>
    /\ inputs = <<>>
    /\ composed_type = <<>>
    /\ node = None
    /\ error = NoError

GetNodeComposerInputs ==
    /\ last_call = "init"
    /\ LET r == get_node_composer_inputs(parsable_quantities, parsed_quantities, file_parser,
                                         node_type, quantity_names)
       IN  /\ inputs' = r.inputs
           /\ error' = r.error
    /\ last_call' = "get_node_composer_inputs"
    /\ UNCHANGED <<managerVars, workchainVars, parsable_quantities, parsed_quantities,
                   file_parser, node_type, quantity_names, composed_type, node>>

\* NodeComposer.compose on the composed inputs.
Compose ==
    /\ last_call = "get_node_composer_inputs"
    /\ error = NoError
    /\ \E tag \in {node_type} \cup UnsupportedTags :
          /\ composed_type' = tag
          /\ node' = compose(tag, inputs).node
          /\ error' = compose(tag, inputs).error
    /\ last_call' = "compose"
    /\ UNCHANGED <<managerVars, workchainVars, parsable_quantities, parsed_quantities,
                   file_parser, node_type, quantity_names, inputs>>

InitC == IdleManager /\ InitComposer /\ IdleWorkChain /\ last_call = "init"
NextComposer == GetNodeComposerInputs \/ Compose
SpecComposer == InitC /\ [][NextComposer]_vars

\* A run of the VaspWorkChain outline.
InitW == IdleManager /\ IdleComposer /\ InitWorkChain /\ last_call = "init"
NextWorkChain ==
    \/ InitContext
    \/ InitInputs
    \/ RunCalculations
    \/ InitCalculation
    \/ RunCalculation
    \/ VerifyCalculation
    \/ Results
    \/ Finalize
    \/ OnExcept
SpecWorkChain == InitW /\ [][NextWorkChain]_vars

-----------------------------------------------------------------------------
(* Properties of ParserManager.setup *)

AfterSetup == last_call = "setup" /\ requested # None

Known(n) == n \in DOMAIN quantities

HasParsable(n) ==
    \E i \in 1..Len(get_equivalent_quantities(quantities, n)) :
        get_equivalent_quantities(quantities, n)[i].is_parsable

\* The first parsable quantity in the enumeration of n and its equivalents.
FirstParsable(n) ==
    LET eq == get_equivalent_quantities(quantities, n)
        k == CHOOSE k \in 1..Len(eq) : eq[k].is_parsable /\ \A j \in 1..(k - 1) : ~eq[j].is_parsable
    IN  eq[k]

NumWarnings(kind) == Len(SelectSeq(warnings, LAMBDA w : w.kind = kind))

NumRequested(P(_)) == Len(SelectSeq(requested.items, P))

IsUnknown(n) == ~Known(n)
IsUnparsable(n) == Known(n) /\ ~HasParsable(n)
IsSelectable(n) == Known(n) /\ HasParsable(n)

\* C3: a requested name the registry does not know adds no entry to
\* quantities_to_parse, is answered by exactly one "not implemented" warning
\* per request and by no other warning, raises nothing, and the names after
\* it are still processed (every known name yields an entry or a
\* missing-files warning).
C3_UnknownNameSkipped ==
    AfterSetup =>
        /\ raised = NoError
        /\ \A n \in RequestedNames :
              IsUnknown(n) =>
                 /\ Count(WarnNotImplemented(n), warnings) = Count(n, requested.items)
                 /\ \A i \in 1..Len(warnings) :
                       warnings[i].kind = "not_retrieved" => warnings[i].quantity # n
        /\ \A i \in 1..Len(quantities_to_parse_) :
              \E m \in DOMAIN quantities : quantities_to_parse_[i] = quantities[m].original_name
        /\ Len(quantities_to_parse_) + NumWarnings("not_retrieved")
              = NumRequested(Known)

C3_Witness ==
    /\ AfterSetup
    /\ requested.items = <<"born_charges", "chgcar">>
    /\ quantities_to_parse_ = <<"chgcar-file">>
    /\ warnings = <<WarnNotImplemented("born_charges")>>

\* C4: quantities_to_parse holds, in the order of the requested names, exactly
\* one entry for every requested name that is known and has a parsable
\* quantity among itself and its equivalents: the original_name of the first
\* parsable one in the registry's enumeration.
C4_FirstParsableInOrder ==
    AfterSetup =>
        LET sel == SelectSeq(requested.items, IsSelectable)
        IN  /\ Len(quantities_to_parse_) = Len(sel)
            /\ \A i \in 1..Len(sel) :
                  quantities_to_parse_[i] = FirstParsable(sel[i]).original_name

C4_Witness ==
    /\ AfterSetup
    /\ requested.items = <<"chgcar", "structure">>
    /\ ~quantities["structure"].is_parsable
    /\ quantities["poscar-structure"].is_parsable
    /\ "outcar-structure" \in DOMAIN quantities
    /\ quantities["outcar-structure"].is_parsable
    /\ quantities_to_parse_ = <<"chgcar-file", "poscar-structure">>

\* C5: a requested name that is known but has no parsable quantity among
\* itself and its equivalents only produces a warning that names its missing
\* files: one per request, no entry of quantities_to_parse (all entries are
\* original names of parsable quantities, one per selectable request), no
\* exception, and every requested name is accounted for.
C5_UnparsableIsDiagnosticOnly ==
    AfterSetup =>
        /\ raised = NoError
        /\ \A n \in RequestedNames :
              IsUnparsable(n) =>
                 Count(WarnNotRetrieved(n, get_missing_files(quantities, n)), warnings)
                    = Count(n, requested.items)
        /\ \A i \in 1..Len(quantities_to_parse_) :
              \E m \in DOMAIN quantities :
                  /\ quantities[m].is_parsable
                  /\ quantities_to_parse_[i] = quantities[m].original_name
        /\ NumWarnings("not_retrieved") = NumRequested(IsUnparsable)
        /\ Len(quantities_to_parse_) + NumWarnings("not_retrieved")
              + NumWarnings("not_implemented") = Len(requested.items)

C5_Witness ==
    /\ AfterSetup
    /\ requested.items = <<"structure", "chgcar">>
    /\ IsUnparsable("structure")
    /\ quantities_to_parse_ = <<"chgcar-file">>
    /\ \E i \in 1..Len(warnings) :
          warnings[i] = WarnNotRetrieved("structure", get_missing_files(quantities, "structure"))

\* C6: for a requested quantity that cannot be parsed, every missing file that
\* is in neither retrieve list of the job is reported by a "not in the
\* retrieve list" warning, and no such warning is logged for a file that is in
\* one of the lists.
C6_EveryUnscheduledFileReported ==
    AfterSetup =>
        LET retrieve_list == node_.retrieve_temporary_list \o node_.retrieve_list
        IN  /\ \A n \in RequestedNames :
                  (IsUnparsable(n) /\ InList(n, requested.items)) =>
                     \A k \in 1..Len(get_missing_files(quantities, n)) :
                        LET f == get_missing_files(quantities, n)[k]
                        IN  ~InList(f, retrieve_list) =>
                                InList(WarnNotInRetrieveList(f), warnings)
            /\ \A i \in 1..Len(warnings) :
                  warnings[i].kind = "not_in_retrieve_list" =>
                      ~InList(warnings[i].file, retrieve_list)

-----------------------------------------------------------------------------
(* Properties of the node composer *)

AfterCollect == last_call = "get_node_composer_inputs" /\ error = NoError

AfterCompose(tag) == last_call = "compose" /\ composed_type = tag

EffReg == EffectiveRegistry(parsable_quantities, parsed_quantities, file_parser)
EffTable == EffectiveTable(parsable_quantities, parsed_quantities, file_parser)
RequiredNames == QuantityNamesOf(node_type, quantity_names).items

\* The positions, in the enumeration of n and its equivalents, of the
\* quantities whose original name has a non-null value in the table.
WithValue(n) ==
    {j \in 1..Len(get_equivalent_quantities(EffReg, n)) :
        TableGet(EffTable, get_equivalent_quantities(EffReg, n)[j].original_name) # None}

\* C1: for every required name without a parsed value of its own, if an
\* equivalent has a (non-null) value under its original name, the composed
\* inputs hold, under the primary quantity's own key, the value of an
\* equivalent that has one.
C1_EquivalentValueUnderPrimaryKey ==
    AfterCollect =>
        \A i \in 1..Len(RequiredNames) :
            LET n == RequiredNames[i]
                eq == get_equivalent_quantities(EffReg, n)
            IN  (TableGet(EffTable, n) = None /\ WithValue(n) # {}) =>
                    /\ DictHas(inputs, get_by_name(EffReg, n).name)
                    /\ DictGet(inputs, get_by_name(EffReg, n).name)
                          \in {EffTable[eq[j].original_name] : j \in WithValue(n)}

\* C2: every entry of the composed inputs has a non-null value, and is the
\* entry of a required quantity whose own name or an equivalent's original
\* name maps to a non-null parsed value.
C2_ComposedInputsNonNull ==
    AfterCollect =>
        \A k \in 1..Len(inputs) :
            /\ inputs[k][2] # None
            /\ \E i \in 1..Len(RequiredNames) :
                  /\ RequiredNames[i] \in DOMAIN EffReg
                  /\ EffReg[RequiredNames[i]].name = inputs[k][1]
                  /\ \/ TableGet(EffTable, RequiredNames[i]) # None
                     \/ WithValue(RequiredNames[i]) # {}

\* A table whose entries are all non-null values of quantities the 'dict'
\* node type requires.
PartialDictTable ==
    /\ node_type = <<"dict">>
    /\ quantity_names = None
    /\ DOMAIN EffTable \subseteq DictQuantities
    /\ \A k \in DOMAIN EffTable : EffTable[k] # None

\* C7: composing 'dict' from a table that holds values for only some of the
\* seven required quantities succeeds, and the node's dictionary is exactly
\* the table: no absent quantity gets an entry.
C7_DictNodeEqualsSuppliedEntries ==
    (AfterCompose(<<"dict">>) /\ PartialDictTable) =>
        /\ error = NoError
        /\ node # None
        /\ node.class = <<"dict">>
        /\ node.dict = EffTable

C7_Witness ==
    /\ AfterCompose(<<"dict">>)
    /\ PartialDictTable
    /\ file_parser = None
    /\ DOMAIN EffTable = {"total_energies", "notifications"}
    /\ node # None
    /\ DOMAIN node.dict = {"total_energies", "notifications"}

BandsQuantities == {"kpoints", "eigenvalues", "occupancies"}

\* 'array.kpoints' composed on its own from the kpoints entry of the inputs.
IndependentKpoints == compose(<<"array", ".", "kpoints">>, <<<<"kpoints", DictGet(inputs, "kpoints")>>>>)

C9_AutomaticMesh ==
    (/\ AfterCompose(<<"array", ".", "kpoints">>)
     /\ Len(inputs) = 1
     /\ inputs[1][1] = "kpoints"
     /\ inputs[1][2].t = "dict"
     /\ Sub(inputs[1][2], "mode") = Str("automatic")) =>
        /\ error = NoError
        /\ node # None
        /\ node.class = <<"array", ".", "kpoints">>
        /\ node.mesh = Sub(inputs[1][2], "divisions")
        /\ node.offset = Sub(inputs[1][2], "shifts")
        /\ node.kpoints = None
        /\ node.weights = None
        /\ node.cartesian = None

C9_Witness ==
    /\ AfterCompose(<<"array", ".", "kpoints">>)
    /\ inputs = <<<<"kpoints", Dict(<<<<"mode", Str("automatic")>>, <<"divisions", List(<<2, 2, 2>>)>>,
                                      <<"shifts", List(<<0, 0, 0>>)>>>>)>>>>
    /\ node # None
    /\ node.mesh = List(<<2, 2, 2>>)
    /\ node.offset = List(<<0, 0, 0>>)

\* C10: compose with a tag that is no key of NODES_TYPES raises a lookup
\* error and returns no node, and every key of NODES_TYPES names exactly one
\* composition routine.
C10_UnknownTagIsLookupError ==
    /\ last_call = "compose" =>
          (composed_type \notin DOMAIN NODES_TYPES =>
              /\ error \in {"AttributeError", "MissingEntryPointError"}
              /\ node = None)
    /\ \A tag \in DOMAIN NODES_TYPES : MethodName(tag) \in Methods
    /\ \A t1, t2 \in DOMAIN NODES_TYPES : MethodName(t1) = MethodName(t2) => t1 = t2

BlobTags == {<<"vasp", ".", "chargedensity">>, <<"vasp", ".", "wavefun">>}

\* C11: composing 'vasp.chargedensity' or 'vasp.wavefun' never returns a null
\* node: the node wraps the value of an input item, unchanged, and with
\* exactly one input item it wraps that item's value.
C11_BlobNodeNeverNull ==
    (last_call = "compose" /\ composed_type \in BlobTags) =>
        /\ error = NoError
        /\ node # None
        /\ node.class = composed_type
        /\ \E i \in 1..Len(inputs) : node.file = inputs[i][2]
        /\ Len(inputs) = 1 => node.file = inputs[1][2]

TrajectoryTag == <<"array", ".", "trajectory">>

\* The <<key, value>> pairs of all input items.
InputItemPairs ==
    UNION {{inputs[i][2].pairs[j] : j \in 1..Len(inputs[i][2].pairs)} :
              i \in {i \in 1..Len(inputs) : inputs[i][2].t = "dict"}}

\* C12: composing 'array.trajectory' returns a node exactly when every input
\* item is a mapping, and the node then holds every key of every input item
\* once: 'symbols' with its value as an attribute and not as an array, every
\* other key with its value as an array and not as an attribute, and nothing
\* else.
C12_TrajectorySymbolsIsAttribute ==
    AfterCompose(TrajectoryTag) =>
        /\ error = NoError <=> \A i \in 1..Len(inputs) : inputs[i][2].t = "dict"
        /\ error # NoError => node = None
        /\ error = NoError =>
              /\ node.class = TrajectoryTag
              /\ DOMAIN node.attributes \cap DOMAIN node.arrays = {}
              /\ DOMAIN node.attributes \cup DOMAIN node.arrays = {p[1] : p \in InputItemPairs}
              /\ \A p \in InputItemPairs :
                    IF p[1] = "symbols"
                    THEN /\ p[1] \in DOMAIN node.attributes
                         /\ node.attributes[p[1]] = p[2]
                         /\ p[1] \notin DOMAIN node.arrays
                    ELSE /\ p[1] \in DOMAIN node.arrays
                         /\ node.arrays[p[1]] = p[2]
                         /\ p[1] \notin DOMAIN node.attributes

C12_Witness ==
    /\ AfterCompose(TrajectoryTag)
    /\ inputs = <<<<"trajectory",
                   Dict(<<<<"cells", Val(1)>>, <<"symbols", Val(2)>>, <<"positions", Val(3)>>>>)>>>>
    /\ node # None
    /\ node.attributes = ("symbols" :> Val(2))
    /\ node.arrays = ("cells" :> Val(1)) @@ ("positions" :> Val(3))

KpointsTag == <<"array", ".", "kpoints">>

\* The inputs are one kpoints item of mode 'explicit'.
ExplicitKpointsInput ==
    /\ Len(inputs) = 1
    /\ inputs[1][1] = "kpoints"
    /\ inputs[1][2].t = "dict"
    /\ Sub(inputs[1][2], "mode") = Str("explicit")

\* The points of the explicit kpoints input.
InputPoints == Sub(inputs[1][2], "points").items

\* C13: composing 'array.kpoints' from an explicit kpoints input gives a node
\* that holds the input points, as lists, in input order and no mesh; when
\* the points agree on the direct flag the cartesian flag is its negation,
\* and when all points carry a weight the node holds the weights in input
\* order, when none does it holds no weights.  In general the first point
\* decides the flag and whether weights are attached.
C13_ExplicitKpoints ==
    (AfterCompose(KpointsTag) /\ ExplicitKpointsInput) =>
        /\ error = NoError
        /\ node # None
        /\ node.class = KpointsTag
        /\ node.mesh = None
        /\ node.offset = None
        /\ node.kpoints.t = "list"
        /\ Len(node.kpoints.items) = Len(InputPoints)
        /\ \A i \in 1..Len(InputPoints) :
              node.kpoints.items[i] = List(InputPoints[i].point.data)
        /\ (\A i \in 1..Len(InputPoints) : InputPoints[i].direct = InputPoints[1].direct)
              => node.cartesian = Val(~InputPoints[1].direct)
        /\ (\A i \in 1..Len(InputPoints) : InputPoints[i].weight # None)
              => /\ node.weights.t = "list"
                 /\ Len(node.weights.items) = Len(InputPoints)
                 /\ \A i \in 1..Len(InputPoints) : node.weights.items[i] = InputPoints[i].weight
        /\ (\A i \in 1..Len(InputPoints) : InputPoints[i].weight = None)
              => node.weights = None
        /\ node.cartesian = Val(~InputPoints[1].direct)
        /\ node.weights = None <=> InputPoints[1].weight = None

C13_Witness ==
    /\ AfterCompose(KpointsTag)
    /\ ExplicitKpointsInput
    /\ Len(InputPoints) = 2
    /\ InputPoints[1].point # InputPoints[2].point
    /\ InputPoints[1].direct /\ InputPoints[2].direct
    /\ InputPoints[1].weight # None /\ InputPoints[2].weight # None
    /\ node # None
    /\ node.cartesian = Val(FALSE)
    /\ node.weights = List(<<Val(1), Val(1)>>)
    /\ node.kpoints = List(<<List(InputPoints[1].point.data), List(InputPoints[2].point.data)>>)

\* The positions, in the enumeration of n and its equivalents, of the
\* quantities whose original name is a key of the table.
WithEntry(n) ==
    {j \in 1..Len(get_equivalent_quantities(EffReg, n)) :
        get_equivalent_quantities(EffReg, n)[j].original_name \in DOMAIN EffTable}

Last(S) == CHOOSE j \in S : \A k \in S : k <= j

\* What quantity selection adds for the name n under the same registry.
SelectionPick(n) == add_quantity_to_parse_(<<>>, get_equivalent_quantities(EffReg, n)).list

\* C14: for a required quantity without a parsed value under its own name,
\* when quantities of its enumeration have entries in the table, the composed
\* input under the quantity's key is the entry of the last of them in
\* enumeration order.
C14_LastEquivalentWins ==
    AfterCollect =>
        \A i \in 1..Len(RequiredNames) :
            LET n == RequiredNames[i]
                eq == get_equivalent_quantities(EffReg, n)
            IN  (TableGet(EffTable, n) = None /\ WithEntry(n) # {}) =>
                    /\ DictHas(inputs, get_by_name(EffReg, n).name)
                    /\ DictGet(inputs, get_by_name(EffReg, n).name)
                          = EffTable[eq[Last(WithEntry(n))].original_name]

\* Two equivalents of 'structure' have different entries: the composed input
\* is the later one's, quantity selection picks the earlier one.
C14_Witness ==
    /\ AfterCollect
    /\ RequiredNames = <<"structure">>
    /\ "structure" \notin DOMAIN EffTable
    /\ WithEntry("structure") = {2, 3}
    /\ EffTable["poscar-structure"] # None
    /\ EffTable["outcar-structure"] # None
    /\ EffTable["poscar-structure"] # EffTable["outcar-structure"]
    /\ inputs = <<<<"structure", EffTable["outcar-structure"]>>>>
    /\ SelectionPick("structure") = <<"poscar-structure">>

-----------------------------------------------------------------------------
(* Properties of ParserManager.setup and ParserManager.remove together *)

\* The list without its i-th entry.
DeleteAt(list, i) == SubSeq(list, 1, i - 1) \o SubSeq(list, i + 1, Len(list))

\* a can be obtained from b by deleting entries.
RECURSIVE IsSubsequence(_, _)
IsSubsequence(a, b) ==
    IF a = <<>> THEN TRUE
    ELSE IF b = <<>> THEN FALSE
    ELSE IF Head(a) = Head(b) THEN IsSubsequence(Tail(a), Tail(b))
    ELSE IsSubsequence(a, Tail(b))

\* What the most recent setup call selects: for every selectable requested
\* name, in order, the original name of its first parsable quantity.
SelectedByLastSetup ==
    IF requested = None THEN <<>>
    ELSE [i \in 1..Len(SelectSeq(requested.items, IsSelectable)) |->
             FirstParsable(SelectSeq(requested.items, IsSelectable)[i]).original_name]

\* Every entry is the original name of a parsable quantity among a name of
\* the most recent setup call and its equivalents; the entries are in the
\* order that call selected them, and right after the call they are exactly
\* what it selected.
EntriesFromLastSetup ==
    /\ IsSubsequence(quantities_to_parse_, SelectedByLastSetup)
    /\ last_call = "setup" => quantities_to_parse_ = SelectedByLastSetup
    /\ \A i \in 1..Len(quantities_to_parse_) :
          /\ requested # None
          /\ \E k \in 1..Len(requested.items) :
                \E j \in 1..Len(get_equivalent_quantities(quantities, requested.items[k])) :
                    LET q == get_equivalent_quantities(quantities, requested.items[k])[j]
                    IN  q.is_parsable /\ q.original_name = quantities_to_parse_[i]

\* What a remove call does to the list.
RemoveDeletesFirstOccurrence ==
    last_call' = "remove" =>
        /\ raised' = NoError
        /\ UNCHANGED <<requested, warnings, node_, quantities>>
        /\ ~InList(removed'.s, quantities_to_parse_)
              => quantities_to_parse_' = quantities_to_parse_
        /\ InList(removed'.s, quantities_to_parse_)
              => \E i \in 1..Len(quantities_to_parse_) :
                    /\ quantities_to_parse_[i] = removed'.s
                    /\ \A j \in 1..(i - 1) : quantities_to_parse_[j] # removed'.s
                    /\ quantities_to_parse_' = DeleteAt(quantities_to_parse_, i)

\* C15: after any sequence of setup and remove calls every entry of
\* quantities_to_parse is the original name of a parsable quantity equivalent
\* to a name of the most recent setup call; setup leaves exactly what it
\* selects itself, whatever the list held before; remove raises nothing,
\* leaves the list as it is when its argument is absent and otherwise deletes
\* the first occurrence of its argument and nothing else.
C15_EntriesFromLastSetup ==
    []EntriesFromLastSetup /\ [][RemoveDeletesFirstOccurrence]_vars

\* One of two equal entries has been removed.
C15_Witness ==
    /\ last_call = "remove"
    /\ removed = Str("chgcar-file")
    /\ requested # None
    /\ requested.items = <<"chgcar", "chgcar">>
    /\ quantities_to_parse_ = <<"chgcar-file">>

-----------------------------------------------------------------------------
(* Properties of the VaspWorkChain steps *)

\* The potentials cannot be obtained: the family name is empty or the lookup
\* raises ValueError or NotExistent.
PotentialsUnavailable ==
    \/ wc_inputs["potential_family"] = Str("")
    \/ potcars = Raise("ValueError")
    \/ potcars = Raise("NotExistent")

\* C16: whenever the potentials cannot be obtained, init_inputs returns a
\* non-zero exit code, and so no calculation is launched with inputs that
\* lack the potentials.
C16_NoPotentialsStopsOutline ==
    /\ (step = "init_inputs" /\ PotentialsUnavailable) => Stops(returned)
    /\ \A i \in 1..Len(ctx.calculations) : "potential" \in DOMAIN ctx.calculations[i]

\* C17: init_context runs first and init_inputs right after it; the guard
\* run_calculations is evaluated after init_inputs and after every
\* verify_calculation; init_calculation runs only right after the guard
\* returned true, run_calculation only right after init_calculation,
\* verify_calculation only right after run_calculation, and no other step
\* of the outline follows run_calculation; results runs only right after the
\* guard returned false and finalize only right after results; nothing
\* follows finalize.
C17_OutlineOrder ==
    [][/\ step' = "init_context" => step = ""
       /\ step' = "init_inputs" => step = "init_context"
       /\ step' = "run_calculations" => step \in {"init_inputs", "verify_calculation"}
       /\ step' = "init_calculation" => step = "run_calculations" /\ returned = BoolVal(TRUE)
       /\ step' = "run_calculation" => step = "init_calculation"
       /\ step' = "verify_calculation" => step = "run_calculation"
       /\ (step = "run_calculation" /\ step' \in OutlineSteps) => step' = "verify_calculation"
       /\ step' = "results" => step = "run_calculations" /\ returned = BoolVal(FALSE)
       /\ step' = "finalize" => step = "results"
       /\ step = "" => step' = "init_context"
       /\ step # "finalize"
       /\ step = "on_except" => step' \notin OutlineSteps]_vars

\* A run of two iterations has reached finalize.
C17_Witness ==
    /\ step = "finalize"
    /\ ctx.iteration = 2
    /\ Len(ctx.calculations) = 2

\* C18: init_calculation returns nothing and changes nothing but the
\* calculation inputs, and of these only restart_folder and parameters.  When
\* restart_calc is a VASP calculation, restart_folder is its remote folder,
\* the new parameters have the tags of the old ones, istart and icharg with
\* the value 1 and every other tag with its old value, and the parameters
\* node is another node exactly when a value changed.  Otherwise the inputs
\* are unchanged.
C18_InitCalculationFrame ==
    [][step' = "init_calculation" =>
          /\ returned' = None
          /\ UNCHANGED <<wc_inputs, potcars, workchain>>
          /\ ctx' = [ctx EXCEPT !.inputs = ctx'.inputs]
          /\ DOMAIN ctx'.inputs \subseteq DOMAIN ctx.inputs \cup {"restart_folder"}
          /\ \A k \in DOMAIN ctx.inputs \ {"restart_folder", "parameters"} :
                k \in DOMAIN ctx'.inputs /\ ctx'.inputs[k] = ctx.inputs[k]
          /\ IF IsVaspCalculation(ctx.restart_calc)
             THEN LET old == ctx.inputs["parameters"]
                      new == ctx'.inputs["parameters"]
                  IN  /\ "restart_folder" \in DOMAIN ctx'.inputs
                      /\ ctx'.inputs["restart_folder"] = ctx.restart_calc.remote_folder
                      /\ DOMAIN new.dict = DOMAIN old.dict
                      /\ \A tag \in DOMAIN old.dict :
                            new.dict[tag] = IF tag \in {"istart", "icharg"} THEN 1 ELSE old.dict[tag]
                      /\ new.id # old.id <=> new.dict # old.dict
                      /\ new.dict = old.dict => new = old
             ELSE ctx'.inputs = ctx.inputs]_vars

\* A restart has set icharg, which was there, and has not added istart, which
\* was not: the parameters are a new node.
C18_Witness ==
    /\ step = "init_calculation"
    /\ IsVaspCalculation(ctx.restart_calc)
    /\ wc_inputs["parameters"].dict = ("icharg" :> 2) @@ ("encut" :> 200)
    /\ ctx.inputs["parameters"] = DictNode(CreatedId(1), ("icharg" :> 1) @@ ("encut" :> 200))
    /\ ctx.inputs["restart_folder"] = ctx.restart_calc.remote_folder
    /\ nodes_created = 1

====
